---- MODULE Spec2Model ----
(***************************************************************************)
(* Laguerre iteration, Lagg(f, x0, n, k, tol) of laguerre_iteration.ipynb. *)
(*                                                                         *)
(* Numbers are exact rationals <<num, den>> (den > 0, lowest terms) plus   *)
(* NaN, the non-finite value numpy produces on a division by zero.  The    *)
(* target functions are polynomials given by their coefficients, and the   *)
(* inputs are drawn from the (f, n) pairs for which every square root the  *)
(* iteration takes is the root of a perfect square, so that the arithmetic *)
(* below computes exactly what the formula of the source computes.         *)
(***************************************************************************)
EXTENDS Integers, Sequences, FiniteSets, TLC

(* ------------------------------ bounds --------------------------------- *)
\* largest iteration cap k a call is made with
MaxK == 3

(* ------------------------- rational arithmetic ------------------------- *)
NaN == <<0, 0>>

IsNaN(a) == a[2] = 0

IAbs(m) == IF m < 0 THEN -m ELSE m

RECURSIVE Gcd(_, _)
Gcd(a, b) == IF b = 0 THEN a ELSE Gcd(b, a % b)

Norm(m, d) ==
    IF d = 0 THEN NaN
    ELSE LET g == Gcd(IAbs(m), IAbs(d))
             sg == IF d < 0 THEN -1 ELSE 1
         IN  <<sg * (m \div g), sg * (d \div g)>>

R(m) == <<m, 1>>

RNeg(a) == IF IsNaN(a) THEN NaN ELSE <<-a[1], a[2]>>

RAbs(a) == IF IsNaN(a) THEN NaN ELSE <<IAbs(a[1]), a[2]>>

RAdd(a, b) ==
    IF IsNaN(a) \/ IsNaN(b) THEN NaN
    ELSE LET g == Gcd(a[2], b[2])
         IN  Norm(a[1] * (b[2] \div g) + b[1] * (a[2] \div g), a[2] * (b[2] \div g))

RSub(a, b) == RAdd(a, RNeg(b))

RMul(a, b) ==
    IF IsNaN(a) \/ IsNaN(b) THEN NaN
    ELSE LET g1 == Gcd(IAbs(a[1]), b[2])
             g2 == Gcd(IAbs(b[1]), a[2])
         IN  Norm((a[1] \div g1) * (b[1] \div g2), (a[2] \div g2) * (b[2] \div g1))

\* numpy division: a zero divisor gives a non-finite value, here NaN
RDiv(a, b) ==
    IF IsNaN(a) \/ IsNaN(b) \/ b[1] = 0 THEN NaN
    ELSE RMul(a, IF b[1] < 0 THEN <<-b[2], -b[1]>> ELSE <<b[2], b[1]>>)

\* a < b; every comparison with NaN is false
RLt(a, b) == ~IsNaN(a) /\ ~IsNaN(b) /\ a[1] * b[2] < b[1] * a[2]

IsZero(a) == ~IsNaN(a) /\ a[1] = 0

RECURSIVE ISqrtFrom(_, _)
ISqrtFrom(m, r) ==
    LET r2 == (r + (m \div r)) \div 2
    IN  IF r2 >= r THEN r ELSE ISqrtFrom(m, r2)

\* floor of the square root of a natural number
ISqrt(m) == IF m = 0 THEN 0 ELSE ISqrtFrom(m, m)

IsSquare(a) == ~IsNaN(a) /\ a[1] >= 0 /\ ISqrt(a[1]) * ISqrt(a[1]) = a[1]
                         /\ ISqrt(a[2]) * ISqrt(a[2]) = a[2]

\* principal square root, of NaN or of a perfect square
RSqrt(a) == IF IsNaN(a) THEN NaN ELSE <<ISqrt(a[1]), ISqrt(a[2])>>

(* ---------------------- the target function f -------------------------- *)
\* a polynomial is the sequence of its coefficients, constant term first
RECURSIVE PolyEvalFrom(_, _, _)
PolyEvalFrom(c, x, j) ==
    IF j > Len(c) THEN R(0)
    ELSE RAdd(R(c[j]), RMul(x, PolyEvalFrom(c, x, j + 1)))

\* f(x)
PolyEval(c, x) == IF IsNaN(x) THEN NaN ELSE PolyEvalFrom(c, x, 1)

\* sympy.diff(f(z), z)
Diff(c) == [j \in 1..(Len(c) - 1) |-> j * c[j + 1]]

\* f_pr = sympy.lambdify(z, sympy.diff(f(z), z))
f_pr(c, x) == PolyEval(Diff(c), x)

\* mu = lambda z: f_pr(z)/f(z)
mu(c, x) == RDiv(f_pr(c, x), PolyEval(c, x))

\* mu_pr = sympy.lambdify(z, sympy.diff(mu(z), z)):  f''/f - (f'/f)^2
mu_pr(c, x) ==
    RSub(RDiv(PolyEval(Diff(Diff(c)), x), PolyEval(c, x)),
         RMul(mu(c, x), mu(c, x)))

\* (n-1)*(-n*mu_pr(x_k) - mu(x_k)**2)
Disc(c, n, x) ==
    RMul(R(n - 1), RSub(RMul(R(-n), mu_pr(c, x)), RMul(mu(c, x), mu(c, x))))

\* -f_pr(x_k)/f(x_k) + sgn*sqrt(...): the denominator of the update
Denom(c, n, x, sgn) ==
    RAdd(RNeg(RDiv(f_pr(c, x), PolyEval(c, x))), RMul(R(sgn), RSqrt(Disc(c, n, x))))

\* x1 and x2 of the sign selection (s = 1 when they are computed)
X1(c, n, x) == RAbs(Denom(c, n, x, 1))
X2(c, n, x) == RAbs(Denom(c, n, x, -1))

\* mutant of SelectSign: equal magnitudes select -1
SelectSignTieMinus(a, b) == IF RLt(b, a) THEN 1 ELSE -1

\* s = 1; if x2 > x1: s = -1; if x2 < x1: s = 1
SelectSign(a, b) == IF RLt(a, b) THEN -1 ELSE 1

\* x_k + n / ( - mu(x_k) + s * cmath.sqrt(...) )
LaguerreStep(c, n, x, sgn) == RAdd(x, RDiv(R(n), Denom(c, n, x, sgn)))

\* mutant of TolMet: the comparison reversed
TolMetReversed(xn, x, tol) == RLt(tol, RAbs(RSub(xn, x)))

\* np.abs(x_k_1 - x_k) < tol
TolMet(xn, x, tol) == RLt(RAbs(RSub(xn, x)), tol)

\* mutants of RangeLast: range(k+2) and range(k)
RangeLastLong(k) == k + 1
RangeLastShort(k) == k - 1

\* the last index of range(k+1)
RangeLast(k) == k

(* ------------------------------ inputs --------------------------------- *)
\* z - 3,  z**2 - 1,  z**2
Linear == <<-3, 1>>
Quadratic == <<-1, 0, 1>>
Square == <<0, 0, 1>>

\* the orders n a function is solved with: those for which Disc is a perfect
\* square at every iterate (ExactArith below)
Orders(c) ==
    IF c = Linear THEN {-1, 0, 1, 2, 3}
    ELSE IF c = Square THEN {0, 1, 2, 3}
    ELSE {0, 2}

Funcs == {Linear, Quadratic, Square}

Guesses == {R(-2), R(0), R(1), R(3), R(4)}

Tols == {R(-1), <<1, 4>>, R(1)}

\* the arguments of one call; np tells whether x0 is a numpy scalar (division
\* by zero gives a non-finite value) or a Python scalar (it raises)
CallArgs(Fs, Xs, Ks, Ts, Nps) ==
    {[f |-> c, x0 |-> x, n |-> m, k |-> kk, tol |-> t, np |-> b] :
        c \in Fs, x \in Xs, m \in UNION {Orders(d) : d \in Fs},
        kk \in Ks, t \in Ts, b \in Nps}

AllArgs ==
    {a \in CallArgs(Funcs, Guesses, (-1)..MaxK, Tols, BOOLEAN) : a.n \in Orders(a.f)}

\* the calls of the interleaved pair: a halving iteration on z**2 and a call
\* on z - 3 that lands on the root and then divides by zero
PairArgs ==
    {a \in CallArgs({Linear, Square}, {R(2)}, (MaxK - 1)..MaxK, Tols, BOOLEAN) :
        a.n \in {1, 3} /\ (a.np <=> a.f = Square) /\ (a.f = Linear => a.n = 1)}

(* ------------------------ Lagg as a function -------------------------- *)
Outcome(at, res, e) == [pc |-> at, result |-> res, exc |-> e]

\* lines 44-59 run without interruption from iteration j with iterate x
RECURSIVE Iterate(_, _, _)
Iterate(a, x, j) ==
    IF j > RangeLast(a.k)
    THEN IF j = 0 THEN Outcome("raised", <<>>, "UnboundLocalError")
         ELSE Outcome("done", <<x, j - 1>>, "")
    ELSE IF IsZero(PolyEval(a.f, x)) /\ ~a.np
    THEN Outcome("raised", <<>>, "ZeroDivisionError")
    ELSE LET sg == SelectSign(X1(a.f, a.n, x), X2(a.f, a.n, x))
             xn == LaguerreStep(a.f, a.n, x, sg)
         IN  IF IsZero(Denom(a.f, a.n, x, sg)) /\ ~a.np
             THEN Outcome("raised", <<>>, "ZeroDivisionError")
             ELSE IF TolMet(xn, x, a.tol) THEN Outcome("done", <<x, j>>, "")
             ELSE Iterate(a, xn, j + 1)

\* the outcome of the call Lagg(f, x0, n, k, tol) run alone
LaggAlone(a) == Iterate(a, a.x0, 0)

(* ------------------------------- state --------------------------------- *)
Procs == {1, 2}

\* the loop variable i before the for statement has bound it
Unbound == -1

NoResult == <<>>

VARIABLES
    args,     \* args[p]: the arguments f, x0, n, k, tol of call p
    pc,       \* pc[p]: the statement call p is at
    x_k,      \* the current iterate
    i,        \* the loop variable
    s,        \* the selected sign
    x_k_1,    \* the proposed next iterate
    evals,    \* history: how often the update of line 53 was evaluated
    broke,    \* history: the tolerance test succeeded and the loop was left
    result,   \* the returned pair <<x_k, i>>
    exc       \* the exception that ended the call, "" if none

vars == <<args, pc, x_k, i, s, x_k_1, evals, broke, result, exc>>

Start(a1, p1, a2, p2) ==
    /\ args = (1 :> a1) @@ (2 :> a2)
    /\ pc = (1 :> p1) @@ (2 :> p2)
    /\ x_k = [p \in Procs |-> NaN]
    /\ i = [p \in Procs |-> Unbound]
    /\ s = [p \in Procs |-> 1]
    /\ x_k_1 = [p \in Procs |-> NaN]
    /\ evals = [p \in Procs |-> 0]
    /\ broke = [p \in Procs |-> FALSE]
    /\ result = [p \in Procs |-> NoResult]
    /\ exc = [p \in Procs |-> ""]

\* one call, with any arguments
Init == \E a \in AllArgs : Start(a, "setup", a, "idle")

\* two calls whose steps interleave
InitPair == \E a1 \in PairArgs, a2 \in PairArgs : Start(a1, "setup", a2, "setup")

(* ------------------------------ Lagg ----------------------------------- *)
\* lines 38-43: build f_pr, mu, mu_pr; x_k = x0
Setup(p) ==
    /\ pc[p] = "setup"
    /\ x_k' = [x_k EXCEPT ![p] = args[p].x0]
    /\ pc' = [pc EXCEPT ![p] = "for"]
    /\ UNCHANGED <<args, i, s, x_k_1, evals, broke, result, exc>>

\* line 44: for i in range(k+1)
ForNext(p) ==
    /\ pc[p] = "for"
    /\ LET nxt == IF i[p] = Unbound THEN 0 ELSE i[p] + 1
       IN  IF nxt <= RangeLast(args[p].k)
           THEN /\ i' = [i EXCEPT ![p] = nxt]
                /\ pc' = [pc EXCEPT ![p] = "sign"]
           ELSE /\ pc' = [pc EXCEPT ![p] = "return"]
                /\ UNCHANGED i
    /\ UNCHANGED <<args, x_k, s, x_k_1, evals, broke, result, exc>>

\* a Python scalar divided by zero raises ZeroDivisionError
Raise(p, e) ==
    /\ pc' = [pc EXCEPT ![p] = "raised"]
    /\ exc' = [exc EXCEPT ![p] = e]

\* lines 45-51: s = 1; x1, x2; the sign of the larger denominator
SignSelect(p) ==
    /\ pc[p] = "sign"
    /\ LET a == args[p]
       IN  IF IsZero(PolyEval(a.f, x_k[p])) /\ ~a.np
           THEN /\ Raise(p, "ZeroDivisionError")
                /\ UNCHANGED s
           ELSE /\ s' = [s EXCEPT ![p] = SelectSign(X1(a.f, a.n, x_k[p]), X2(a.f, a.n, x_k[p]))]
                /\ pc' = [pc EXCEPT ![p] = "update"]
                /\ UNCHANGED exc
    /\ UNCHANGED <<args, x_k, i, x_k_1, evals, broke, result>>

\* line 53: x_k_1 = x_k + n / (-mu(x_k) + s*cmath.sqrt(...))
Update(p) ==
    /\ pc[p] = "update"
    /\ evals' = [evals EXCEPT ![p] = @ + 1]
    /\ LET a == args[p]
       IN  IF IsZero(Denom(a.f, a.n, x_k[p], s[p])) /\ ~a.np
           THEN /\ Raise(p, "ZeroDivisionError")
                /\ UNCHANGED x_k_1
           ELSE /\ x_k_1' = [x_k_1 EXCEPT ![p] = LaguerreStep(a.f, a.n, x_k[p], s[p])]
                /\ pc' = [pc EXCEPT ![p] = "test"]
                /\ UNCHANGED exc
    /\ UNCHANGED <<args, x_k, i, s, broke, result>>

\* mutant of TolTest: x_k is one variable shared by all calls
TolTestShared(p) ==
    /\ pc[p] = "test"
    /\ IF TolMet(x_k_1[p], x_k[p], args[p].tol)
       THEN /\ broke' = [broke EXCEPT ![p] = TRUE]
            /\ pc' = [pc EXCEPT ![p] = "return"]
            /\ UNCHANGED x_k
       ELSE /\ x_k' = [q \in Procs |-> x_k_1[p]]
            /\ pc' = [pc EXCEPT ![p] = "for"]
            /\ UNCHANGED broke
    /\ UNCHANGED <<args, i, s, x_k_1, evals, result, exc>>

\* lines 55-58: break when the step is below tol, else x_k = x_k_1
TolTest(p) ==
    /\ pc[p] = "test"
    /\ IF TolMet(x_k_1[p], x_k[p], args[p].tol)
       THEN /\ broke' = [broke EXCEPT ![p] = TRUE]
            /\ pc' = [pc EXCEPT ![p] = "return"]
            /\ UNCHANGED x_k
       ELSE /\ x_k' = [x_k EXCEPT ![p] = x_k_1[p]]
            /\ pc' = [pc EXCEPT ![p] = "for"]
            /\ UNCHANGED broke
    /\ UNCHANGED <<args, i, s, x_k_1, evals, result, exc>>

\* mutant of Return: after a break the proposed iterate x_k_1 is returned
ReturnLast(p) ==
    /\ pc[p] = "return"
    /\ IF i[p] = Unbound
       THEN /\ Raise(p, "UnboundLocalError")
            /\ UNCHANGED result
       ELSE /\ result' = [result EXCEPT
                            ![p] = <<IF broke[p] THEN x_k_1[p] ELSE x_k[p], i[p]>>]
            /\ pc' = [pc EXCEPT ![p] = "done"]
            /\ UNCHANGED exc
    /\ UNCHANGED <<args, x_k, i, s, x_k_1, evals, broke>>

\* line 59: return x_k, i
Return(p) ==
    /\ pc[p] = "return"
    /\ IF i[p] = Unbound
       THEN /\ Raise(p, "UnboundLocalError")
            /\ UNCHANGED result
       ELSE /\ result' = [result EXCEPT ![p] = <<x_k[p], i[p]>>]
            /\ pc' = [pc EXCEPT ![p] = "done"]
            /\ UNCHANGED exc
    /\ UNCHANGED <<args, x_k, i, s, x_k_1, evals, broke>>

Next ==
    \E p \in Procs :
        \/ Setup(p)
        \/ ForNext(p)
        \/ SignSelect(p)
        \/ Update(p)
        \/ TolTest(p)
        \/ Return(p)

Spec == Init /\ [][Next]_vars

SpecPair == InitPair /\ [][Next]_vars

\* the arguments of the call that repeats call p from the root p returned
AgainArgs(p) == [args[p] EXCEPT !.x0 = result[p][1]]

\* a second call Lagg(f, r, n, k, tol), r the root a converged call p returned
CallAgain(p, q) ==
    /\ p # q
    /\ pc[p] = "done" /\ broke[p]
    /\ pc[q] = "idle"
    /\ args' = [args EXCEPT ![q] = AgainArgs(p)]
    /\ pc' = [pc EXCEPT ![q] = "setup"]
    /\ UNCHANGED <<x_k, i, s, x_k_1, evals, broke, result, exc>>

NextAgain == Next \/ \E p \in Procs, q \in Procs : CallAgain(p, q)

\* one call, and a second one from its root once it has converged
SpecAgain == Init /\ [][NextAgain]_vars

\* the sample of cell 4: f = z**2 - 1, n = 2, k = 10, tol = 10**(-5)
SampleN == 2
SampleK == 10
SampleTol == <<1, 100000>>

\* initial guesses whose first step is exact in binary floating point too
SampleGuesses == {R(-3), R(-1), R(1), R(3)}

SampleArgs ==
    {[f |-> Quadratic, x0 |-> x, n |-> SampleN, k |-> SampleK, tol |-> SampleTol, np |-> b] :
        x \in SampleGuesses, b \in BOOLEAN}

InitSample == \E a \in SampleArgs : Start(a, "setup", a, "idle")

\* one call of the sample
SpecSample == InitSample /\ [][Next]_vars

(* ---------------------------- model sanity ----------------------------- *)
\* every square root the iteration takes is that of a perfect square or NaN
ExactArith ==
    \A p \in Procs :
        pc[p] \in {"sign", "update"} =>
            LET d == Disc(args[p].f, args[p].n, x_k[p])
            IN  IsNaN(d) \/ IsSquare(d)

(* ------------------------------ claims --------------------------------- *)
Returned(p) == pc[p] = "done"

\* the arguments the contract excludes
InvalidArgument(a) == a.n < 1 \/ RLt(a.tol, R(0)) \/ a.k < 0

\* call p was made with n >= 1, tol >= 0 and k >= 0
Valid(p) == ~InvalidArgument(args[p])

Root(p) == result[p][1]

Count(p) == result[p][2]

\* C1: with a cap k >= 0 the returned iteration count never exceeds k
C1_CountWithinCap ==
    \A p \in Procs : Returned(p) /\ args[p].k >= 0 => Count(p) <= args[p].k

\* a call with a positive cap returned the cap itself as its count
C1_Witness ==
    \E p \in Procs : Returned(p) /\ args[p].k >= 1 /\ Count(p) = args[p].k

\* C2: a call with k = 0 (and otherwise valid arguments) returns x0 unchanged
\* and the count 0
C2_ZeroCapReturnsGuess ==
    \A p \in Procs :
        Valid(p) /\ Returned(p) /\ args[p].k = 0 => result[p] = <<args[p].x0, 0>>

\* C3: a returned count equal to the cap means that no step met the
\* tolerance test
C3_CapCountMeansNotConverged ==
    \A p \in Procs : Valid(p) /\ Returned(p) /\ Count(p) = args[p].k => ~broke[p]

\* C4: when the loop runs out (cap k >= 0) without the tolerance test ever
\* succeeding, the call returns normally and its count is k
C4_ExhaustedReturnsCap ==
    \A p \in Procs :
        /\ pc[p] = "return" /\ ~broke[p] /\ args[p].k >= 0 => i[p] = args[p].k
        /\ Returned(p) /\ ~broke[p] => result[p] = <<x_k[p], args[p].k>>
        /\ exc[p] = "UnboundLocalError" => args[p].k < 0

\* a call ran through all its iterations without meeting the tolerance and
\* returned
C4_Witness ==
    \E p \in Procs :
        Returned(p) /\ ~broke[p] /\ args[p].k >= 1 /\ evals[p] = args[p].k + 1

\* C5: the returned root is the last iterate computed, x_k_1
C5_ReturnsLastIterate ==
    \A p \in Procs : Valid(p) /\ Returned(p) /\ evals[p] >= 1 => Root(p) = x_k_1[p]

\* C6: the returned count is the number of evaluations of the update
C6_CountIsIterationsPerformed ==
    \A p \in Procs : Valid(p) /\ Returned(p) => Count(p) = evals[p]

\* C7: the update is never evaluated more than k times
C7_UpdatesWithinCap ==
    \A p \in Procs : Valid(p) => evals[p] <= args[p].k

\* C8: when f(x_k) is zero the call neither evaluates the division of the
\* update nor raises, it returns x_k
C8_ExactRootIsSuccess ==
    \A p \in Procs :
        Valid(p) /\ IsZero(PolyEval(args[p].f, x_k[p])) =>
            /\ pc[p] \notin {"update", "test"}
            /\ exc[p] # "ZeroDivisionError"
            /\ Returned(p) => Root(p) = x_k[p]

\* C9: a call with n < 1, a negative tolerance or a negative cap evaluates
\* no update and returns no (root, count) pair
C9_InvalidArgumentRejected ==
    \A p \in Procs :
        InvalidArgument(args[p]) => evals[p] = 0 /\ result[p] = NoResult

SameButTol(a, b) ==
    a.f = b.f /\ a.x0 = b.x0 /\ a.n = b.n /\ a.k = b.k /\ a.np = b.np

\* C10: of two calls that differ in the tolerance only, the one with the
\* smaller positive tolerance returns at least the count of the other
C10_ToleranceMonotone ==
    \A p \in Procs, q \in Procs :
        (/\ Returned(p) /\ Returned(q)
         /\ SameButTol(args[p], args[q])
         /\ RLt(R(0), args[q].tol)
         /\ ~RLt(args[p].tol, args[q].tol))
        => Count(q) >= Count(p)

\* two such calls returned, the tighter one with strictly more iterations
C10_Witness ==
    \E p \in Procs, q \in Procs :
        /\ Returned(p) /\ Returned(q)
        /\ SameButTol(args[p], args[q])
        /\ RLt(R(0), args[q].tol)
        /\ RLt(args[q].tol, args[p].tol)
        /\ broke[p] /\ broke[q]
        /\ Count(q) > Count(p)

\* call q is the repetition of the converged call p from p's root
Repeats(q, p) ==
    /\ p # q
    /\ Returned(p) /\ broke[p]
    /\ pc[q] # "idle"
    /\ args[q] = AgainArgs(p)

\* C11: a call repeated from the root r of a converged call evaluates at
\* most one update, does not fail, and returns r again
C11_Idempotent ==
    \A p \in Procs, q \in Procs :
        Repeats(q, p) =>
            /\ evals[q] <= 1
            /\ pc[q] # "raised"
            /\ Returned(q) => Root(q) = Root(p) /\ Count(q) <= 1

\* a call that converged after moving away from x0 was repeated and returned
C11_Witness ==
    \E p \in Procs, q \in Procs :
        /\ Repeats(q, p) /\ Returned(q)
        /\ Count(p) >= 1 /\ Root(p) # args[p].x0
        /\ Root(q) = Root(p)

\* C12: a call with valid arguments (k >= 0) evaluates at most k + 1 updates
\* and ends by returning a (root, count) pair, never in an exception
C12_TerminatesWithResult ==
    \A p \in Procs :
        Valid(p) => evals[p] <= args[p].k + 1 /\ pc[p] # "raised"

\* C13: for f = z**2 - 1, n = 2, tol = 1e-5, k = 10 and a guess x0 # 0 the call
\* stops by the tolerance test in fewer than 10 iterations and returns a root
\* r with |r**2 - 1| < 1e-4
C13_SampleConverges ==
    \A p \in Procs :
        args[p] \in SampleArgs /\ ~IsZero(args[p].x0) =>
            /\ pc[p] # "raised"
            /\ Returned(p) =>
                /\ broke[p]
                /\ Count(p) < SampleK
                /\ RLt(RAbs(PolyEval(Quadratic, Root(p))), <<1, 10000>>)

Ended(p) == pc[p] \in {"done", "raised"}

\* C14: however the steps of two calls interleave, each call ends as it ends
\* when run alone, with the same (root, count) pair or the same exception
C14_NoSharedState ==
    \A p \in Procs :
        Ended(p) => Outcome(pc[p], result[p], exc[p]) = LaggAlone(args[p])

\* two different calls have ended, one in an exception, the other converged
\* after several iterations
C14_Witness ==
    \E p \in Procs, q \in Procs :
        /\ Ended(p) /\ Ended(q)
        /\ args[p].f # args[q].f
        /\ pc[p] = "raised"
        /\ Returned(q) /\ broke[q] /\ Count(q) >= 2

\* d_plus = -mu(x_k) + sqrt(D) and d_minus = -mu(x_k) - sqrt(D) of call p
DPlus(p) ==
    RAdd(RNeg(mu(args[p].f, x_k[p])), RSqrt(Disc(args[p].f, args[p].n, x_k[p])))

DMinus(p) ==
    RSub(RNeg(mu(args[p].f, x_k[p])), RSqrt(Disc(args[p].f, args[p].n, x_k[p])))

\* the sign of call p has been selected for the current iterate
SignSelected(p) == pc[p] \in {"update", "test"}

\* C15: the selected sign is +1 or -1, and it is +1 exactly when
\* |d_plus| >= |d_minus| (the two being numbers), so also on a tie
C15_SignOfLargerDenominator ==
    \A p \in Procs :
        SignSelected(p) =>
            /\ s[p] \in {1, -1}
            /\ ~IsNaN(DPlus(p)) /\ ~IsNaN(DMinus(p)) =>
                  (s[p] = 1 <=> ~RLt(RAbs(DPlus(p)), RAbs(DMinus(p))))

\* a sign was selected on a tie of two non-zero magnitudes
C15_Witness ==
    \E p \in Procs :
        /\ SignSelected(p)
        /\ ~IsNaN(DPlus(p)) /\ ~IsZero(DPlus(p))
        /\ RAbs(DPlus(p)) = RAbs(DMinus(p))
        /\ s[p] = 1

\* the step of call p is below the tolerance, or i has reached the cap k
StopCondition(p) ==
    /\ i[p] # Unbound
    /\ \/ i[p] = args[p].k
       \/ broke[p]
       \/ pc[p] = "test" /\ TolMet(x_k_1[p], x_k[p], args[p].tol)

\* C16: once the step is below the tolerance or i has reached the cap, x_k is
\* not updated any more; the call returns only then, and returns the pair
\* (x_k, i) held at that moment; a call that has returned changes no more
C16_DoneWhenConvergedOrExhausted ==
    [][\A p \in Procs :
          Valid(p) =>
            /\ StopCondition(p) => x_k'[p] = x_k[p]
            /\ ~Returned(p) /\ pc'[p] = "done" =>
                  StopCondition(p) /\ result'[p] = <<x_k[p], i[p]>>
            /\ Returned(p) =>
                  /\ pc'[p] = "done" /\ result'[p] = result[p]
                  /\ x_k'[p] = x_k[p] /\ i'[p] = i[p]]_vars

====
